---- MODULE Spec2Model ----
(***************************************************************************)
(* DockerRun::run and shell_interpolate of src/docker/mod.rs.              *)
(*                                                                         *)
(* A string is a sequence of characters; a character is a one-character    *)
(* TLA+ string.  A fixed piece of text that holds no substitution marker   *)
(* ("--entrypoint", "--network=", "=") is written as one element.          *)
(* The backquote character is written Backtick.                            *)
(* Option<T> is a sequence of length 0 (None) or 1 (Some(x)).              *)
(* Result<T, E> is a record [ok, val, err].                                *)
(***************************************************************************)
EXTENDS Integers, Sequences, FiniteSets, TLC

VARIABLES
    self,             \* the DockerRun the call borrows (never mutated)
    env,              \* the process environment: variable name -> value
    sh,               \* what the host shell does with a command line
    pc,               \* the statement of run that executes next
    local,            \* the let bindings of run made so far, by name
    args,             \* the token sequence handed to Command::args
    launches,         \* how many times Command::output was called on docker_cmd
    output,           \* what Command::output returned (an Option)
    stdout, stderr,   \* what run wrote to the caller's streams
    broken,           \* the caller's streams whose write_all returned an error
    result,           \* how run ended
    interpolated      \* the fields shell_interpolate was called for, in call order

inputs == <<self, env, sh>>
launch == <<args, launches, output, stdout, stderr, broken>>
vars == <<inputs, pc, local, launch, result, interpolated>>

----------------------------------------------------------------------------
(* Bounds of the model.                                                    *)

MaxList == 2      \* longest command / ports / volumes / extra_flags list
MaxSegs == 2      \* number of segments a string under interpolation is built from

----------------------------------------------------------------------------
(* Option and Result.                                                      *)

None == <<>>
Some(x) == <<x>>
Ok(v) == [ok |-> TRUE, val |-> v, err |-> "-"]
Err(e) == [ok |-> FALSE, val |-> <<>>, err |-> e]

----------------------------------------------------------------------------
(* The command runner closure handed to fmt::shell_interpolate.            *)

Whitespace == {" ", "\t", "\n", "\r"}

RECURSIVE trim_end(_)
trim_end(s) ==
    IF s # <<>> /\ s[Len(s)] \in Whitespace
    THEN trim_end(SubSeq(s, 1, Len(s) - 1))
    ELSE s

\* Command::new("sh").args(&["-c", cmd]).output()?  then
\* str::from_utf8(&output.stdout)?.trim_end().to_string()
RunnerClosure(cmd) ==
    IF ~sh.spawned THEN Err("io::Error")
    ELSE IF ~sh.utf8 THEN Err("Utf8Error")
    ELSE Ok(trim_end(sh.stdout))

----------------------------------------------------------------------------
(* fmt::shell_interpolate: the scanner.                                    *)

Backtick == "BACKTICK"

NameChars == {"V", "K", "a", "b", "c", "o", "v", "_"}

Lookup(name) == IF name \in DOMAIN env THEN env[name] ELSE <<>>

\* the first index >= i holding c, 0 when there is none
FindCloser(raw, i, c) ==
    LET js == {j \in i..Len(raw) : raw[j] = c}
    IN  IF js = {} THEN 0 ELSE CHOOSE j \in js : \A k \in js : j <= k

\* the last index of the maximal run of name characters starting at i
RECURSIVE NameEnd(_, _)
NameEnd(raw, i) ==
    IF i < Len(raw) /\ raw[i + 1] \in NameChars THEN NameEnd(raw, i + 1) ELSE i

RECURSIVE Scan(_, _, _)
Scan(raw, i, out) ==
    IF i > Len(raw) THEN Ok(out)
    ELSE
    LET c == raw[i]
        n == IF i < Len(raw) THEN raw[i + 1] ELSE ""
    IN  IF c = Backtick \/ (c = "$" /\ n = "(")
        THEN LET from == IF c = Backtick THEN i + 1 ELSE i + 2
                 j == FindCloser(raw, from, IF c = Backtick THEN Backtick ELSE ")")
             IN  IF j = 0 THEN Err("UnterminatedSubstitution")
                 ELSE LET r == RunnerClosure(SubSeq(raw, from, j - 1))
                      IN  IF r.ok THEN Scan(raw, j + 1, out \o r.val) ELSE r
        ELSE IF c = "$" /\ n = "{"
        THEN LET j == FindCloser(raw, i + 2, "}")
             IN  IF j = 0 THEN Err("UnterminatedSubstitution")
                 ELSE Scan(raw, j + 1, out \o Lookup(SubSeq(raw, i + 2, j - 1)))
        ELSE IF c = "$" /\ n \in NameChars
        THEN LET j == NameEnd(raw, i + 1)
             IN  Scan(raw, j + 1, out \o Lookup(SubSeq(raw, i + 1, j)))
        ELSE Scan(raw, i + 1, Append(out, c))

fmt_shell_interpolate(raw) == Scan(raw, 1, <<>>)

\* pub fn shell_interpolate(raw: &str)
shell_interpolate(raw) == fmt_shell_interpolate(raw)

----------------------------------------------------------------------------
(* The flag vectors of DockerRun::run, one per let statement.  Each is the *)
(* Result of the statement: Err when an interpolation in it fails (the     *)
(* statement then never completes: see Expect).                            *)

Tok(text) == <<text>>

\* xs.iter().map / flat_map(|x| [flag.., shell_interpolate(x)]).collect():
\* entries are visited in list order and the first failure ends the walk
RECURSIVE MapInterp(_, _)
MapInterp(xs, flag) ==
    IF xs = <<>> THEN Ok(<<>>)
    ELSE LET r == shell_interpolate(Head(xs))
         IN  IF ~r.ok THEN r
             ELSE LET rest == MapInterp(Tail(xs), flag)
                  IN  IF ~rest.ok THEN rest
                      ELSE Ok(flag \o <<r.val>> \o rest.val)

CommandFlags(s) ==
    IF s.command = None THEN Ok(<<>>)
    ELSE MapInterp(s.command[1], <<>>)

EntrypointFlag(s) ==
    IF s.entrypoint = None THEN Ok(<<>>)
    ELSE MapInterp(<<s.entrypoint[1]>>, <<Tok("--entrypoint")>>)

\* format!("{}={}", k, v) for the keys in the order the map yields them
EnvPairs(m, order) == [i \in 1..Len(order) |-> order[i] \o <<"=">> \o m[order[i]]]

\* the pair joined after the value alone was expanded
EnvsFlagsValueOnly(s, order) ==
    IF s.envs = None THEN Ok(<<>>)
    ELSE LET m == s.envs[1]
             vals == MapInterp([i \in 1..Len(order) |-> m[order[i]]], <<>>)
         IN  IF ~vals.ok THEN vals
             ELSE Ok([i \in 1..2 * Len(order) |->
                        IF i % 2 = 1 THEN Tok("-e")
                        ELSE order[i \div 2] \o <<"=">> \o vals.val[i \div 2]])

EnvsFlags(s, order) ==
    IF s.envs = None THEN Ok(<<>>)
    ELSE MapInterp(EnvPairs(s.envs[1], order), <<Tok("-e")>>)

\* env_file.display(): the path's text (every path of the model is valid Unicode)
Display(path) == path

EnvFileFlags(s) ==
    IF s.env_file = None THEN Ok(<<>>)
    ELSE MapInterp(<<Display(s.env_file[1])>>, <<Tok("--env-file")>>)

NetworkFlags(s) ==
    IF s.network = None THEN Ok(<<>>)
    ELSE MapInterp(<<<<"--network=">> \o s.network[1]>>, <<>>)

\* one "-p" in front of all the entries
PortsFlagsOneFlag(s) ==
    IF s.ports = None THEN Ok(<<>>)
    ELSE LET r == MapInterp(s.ports[1], <<>>)
         IN  IF ~r.ok \/ r.val = <<>> THEN r ELSE Ok(<<Tok("-p")>> \o r.val)

PortsFlags(s) ==
    IF s.ports = None THEN Ok(<<>>)
    ELSE MapInterp(s.ports[1], <<Tok("-p")>>)

VolumesFlags(s) ==
    IF s.volumes = None THEN Ok(<<>>)
    ELSE MapInterp(s.volumes[1], <<Tok("-v")>>)

\* the flag emitted for an absent user too
UserFlagsBare(s) ==
    MapInterp(<<IF s.user = None THEN <<>> ELSE s.user[1]>>, <<Tok("-u")>>)

UserFlags(s) ==
    IF s.user = None THEN Ok(<<>>)
    ELSE MapInterp(<<s.user[1]>>, <<Tok("-u")>>)

ExtraFlags(s) ==
    IF s.extra_flags = None THEN Ok(<<>>)
    ELSE MapInterp(s.extra_flags[1], <<>>)

Image(s) == shell_interpolate(s.image)

\* the volumes group ahead of the ports group
ArgsVolumesFirst(l) ==
    <<Tok("run")>> \o <<Tok("--rm")>> \o l.entrypoint_flag \o l.envs_flags
        \o l.env_file_flags \o l.network_flags \o l.volumes_flags
        \o l.ports_flags \o l.user_flags \o l.extra_flags
        \o <<l.image>> \o l.command_flags

\* interactive and tty rendered as -i and -t
ArgsWithTerminalFlags(l) ==
    <<Tok("run")>> \o <<Tok("--rm")>>
        \o (IF self.interactive = Some(TRUE) THEN <<Tok("-i")>> ELSE <<>>)
        \o (IF self.tty = Some(TRUE) THEN <<Tok("-t")>> ELSE <<>>)
        \o l.entrypoint_flag \o l.envs_flags
        \o l.env_file_flags \o l.network_flags \o l.ports_flags
        \o l.volumes_flags \o l.user_flags \o l.extra_flags
        \o <<l.image>> \o l.command_flags

\* [ &["run"], &["--rm"], &entrypoint_flag[..], ..., &[image], &command_flags[..] ].concat()
Args(l) ==
    <<Tok("run")>> \o <<Tok("--rm")>> \o l.entrypoint_flag \o l.envs_flags
        \o l.env_file_flags \o l.network_flags \o l.ports_flags
        \o l.volumes_flags \o l.user_flags \o l.extra_flags
        \o <<l.image>> \o l.command_flags

\* the statements in the order of the flags they produce
EvalOrderOfFlags ==
    <<"entrypoint", "envs", "env_file", "network", "ports", "volumes", "user",
      "extra_flags", "image", "command">>

\* the let statements of run, in source order
EvalOrder ==
    <<"command", "entrypoint", "envs", "env_file", "network", "ports",
      "volumes", "user", "extra_flags", "image">>

After(field) ==
    LET i == CHOOSE k \in 1..Len(EvalOrder) : EvalOrder[k] = field
    IN  IF i < Len(EvalOrder) THEN EvalOrder[i + 1] ELSE "launch"

\* whether the statement of an Option<Vec<String>> field calls shell_interpolate
CallsList(opt) == opt # None /\ opt[1] # <<>>

\* a non-zero exit status treated as a failure of the launch
LaunchErrorOnStatus(o) == ~o.spawned \/ o.status # 0

\* the failure of the spawn swallowed
LaunchErrorIgnored(o) == FALSE

\* `?` on Command::output: run returns early exactly when the spawn failed
LaunchError(o) == ~o.spawned

----------------------------------------------------------------------------
(* The statements of DockerRun::run.                                       *)

Running == [kind |-> "Running", msg |-> "-"]
Returned(kind, msg) == [kind |-> kind, msg |-> msg]

\* `let x = ...expect(msg)`: the binding is made when every interpolation of
\* the statement succeeded; the first failure panics with msg
Expect(field, name, r, called, msg) ==
    /\ interpolated' = IF called THEN Append(interpolated, field) ELSE interpolated
    /\ IF r.ok
       THEN /\ local' = [local EXCEPT ![name] = r.val]
            /\ pc' = After(field)
            /\ result' = result
       ELSE /\ local' = local
            /\ pc' = "panicked"
            /\ result' = Returned("Panic", msg)
    /\ UNCHANGED <<inputs, launch>>

InterpCommand ==
    /\ pc = "command"
    /\ Expect("command", "command_flags", CommandFlags(self),
              CallsList(self.command), "Invalid env for cmds")

InterpEntrypoint ==
    /\ pc = "entrypoint"
    /\ Expect("entrypoint", "entrypoint_flag", EntrypointFlag(self),
              self.entrypoint # None, "Invalid env for entrypoint")

\* every sequence that holds each element of S once
Orders(S) ==
    {o \in [1..Cardinality(S) -> S] : \A i, j \in DOMAIN o : o[i] = o[j] => i = j}

\* envs.iter() of a HashMap yields the pairs in an order of its own
InterpEnvs ==
    /\ pc = "envs"
    /\ \E order \in Orders(IF self.envs = None THEN {} ELSE DOMAIN self.envs[1]) :
        LET r == EnvsFlags(self, order)
        IN  /\ interpolated' =
                 IF order # <<>> THEN Append(interpolated, "envs") ELSE interpolated
            /\ IF r.ok
               THEN /\ local' = [local EXCEPT !.envs_flags = r.val,
                                              !.envs_order = order]
                    /\ pc' = After("envs")
                    /\ result' = result
               ELSE /\ local' = [local EXCEPT !.envs_order = order]
                    /\ pc' = "panicked"
                    /\ result' = Returned("Panic", "Invalid env for envs")
    /\ UNCHANGED <<inputs, launch>>

InterpEnvFile ==
    /\ pc = "env_file"
    /\ Expect("env_file", "env_file_flags", EnvFileFlags(self),
              self.env_file # None, "Invalid env for env-file")

\* the message is the one of the env-file statement in the source too
InterpNetwork ==
    /\ pc = "network"
    /\ Expect("network", "network_flags", NetworkFlags(self),
              self.network # None, "Invalid env for env-file")

InterpPorts ==
    /\ pc = "ports"
    /\ Expect("ports", "ports_flags", PortsFlags(self),
              CallsList(self.ports), "Invalid env for ports")

InterpVolumes ==
    /\ pc = "volumes"
    /\ Expect("volumes", "volumes_flags", VolumesFlags(self),
              CallsList(self.volumes), "Invalid env for volumes")

InterpUser ==
    /\ pc = "user"
    /\ Expect("user", "user_flags", UserFlags(self),
              self.user # None, "Invalid env for user")

InterpExtraFlags ==
    /\ pc = "extra_flags"
    /\ Expect("extra_flags", "extra_flags", ExtraFlags(self),
              CallsList(self.extra_flags), "Invalid env for extra flags")

\* let image = shell_interpolate(&self.image)?;
InterpImage ==
    /\ pc = "image"
    /\ interpolated' = Append(interpolated, "image")
    /\ LET r == Image(self)
       IN  IF r.ok
           THEN /\ local' = [local EXCEPT !.image = r.val]
                /\ pc' = After("image")
                /\ result' = result
           ELSE /\ local' = local
                /\ pc' = "returned"
                /\ result' = Returned("Err", r.err)
    /\ UNCHANGED <<inputs, launch>>

ExitCodes == {0, 1}

\* what Command::output can come back with: a spawn failure, or the child's
\* exit status and captured streams
LaunchOutcomes ==
    {[spawned |-> FALSE, status |-> -1, stdout |-> <<>>, stderr |-> <<>>]}
    \cup {[spawned |-> TRUE, status |-> c, stdout |-> <<"o", "k">>,
            stderr |-> <<"e", "r">>] : c \in ExitCodes}

\* what a write_all that returns an error may have written before it failed
Partial(data) == {SubSeq(data, 1, n) : n \in 0..(Len(data) - 1)}

\* let args = [...].concat();
\* let output = Command::new(docker_cmd).args(args).output()?;
Launch ==
    /\ pc = "launch"
    /\ args' = Args(local)
    /\ launches' = launches + 1
    /\ \E o \in LaunchOutcomes :
        /\ output' = Some(o)
        /\ IF LaunchError(o)
           THEN pc' = "returned" /\ result' = Returned("Err", "io::Error")
           ELSE pc' = "write_stdout" /\ result' = result
    /\ UNCHANGED <<inputs, local, stdout, stderr, broken, interpolated>>

\* io::stdout().write_all(&output.stdout)?;
WriteStdout ==
    /\ pc = "write_stdout"
    /\ \E written \in BOOLEAN :
        IF written
        THEN /\ stdout' = stdout \o output[1].stdout
             /\ broken' = broken
             /\ pc' = "write_stderr"
             /\ result' = result
        ELSE /\ \E part \in Partial(output[1].stdout) : stdout' = stdout \o part
             /\ broken' = broken \cup {"stdout"}
             /\ pc' = "returned"
             /\ result' = Returned("Err", "io::Error")
    /\ UNCHANGED <<inputs, local, args, launches, output, stderr, interpolated>>

\* io::stderr().write_all(&output.stderr)?;  Ok(())
WriteStderr ==
    /\ pc = "write_stderr"
    /\ \E written \in BOOLEAN :
        IF written
        THEN /\ stderr' = stderr \o output[1].stderr
             /\ broken' = broken
             /\ pc' = "returned"
             /\ result' = Returned("Ok", "-")
        ELSE /\ \E part \in Partial(output[1].stderr) : stderr' = stderr \o part
             /\ broken' = broken \cup {"stderr"}
             /\ pc' = "returned"
             /\ result' = Returned("Err", "io::Error")
    /\ UNCHANGED <<inputs, local, args, launches, output, stdout, interpolated>>

Next ==
    \/ InterpCommand
    \/ InterpEntrypoint
    \/ InterpEnvs
    \/ InterpEnvFile
    \/ InterpNetwork
    \/ InterpPorts
    \/ InterpVolumes
    \/ InterpUser
    \/ InterpExtraFlags
    \/ InterpImage
    \/ Launch
    \/ WriteStdout
    \/ WriteStderr

----------------------------------------------------------------------------
(* The calls the model makes.                                              *)

Lit == <<"a">>
Var == <<"$", "V">>
Sub == <<Backtick, "c", Backtick>>
Bad == <<"$", "{", "V">>
Strs == {Lit, Var, Bad}

KeyK == <<"K">>
KeyV == <<"$", "V">>
Keys == {KeyK, KeyV}

SeqsUpTo(S, n) == UNION {[1..k -> S] : k \in 0..n}
Maps(K, V) == UNION {[ks -> V] : ks \in SUBSET K}

OptFields ==
    {"command", "entrypoint", "envs", "env_file", "network", "ports",
     "volumes", "user", "extra_flags"}

\* the present values of an optional field
Dom(f) ==
    IF f \in {"entrypoint", "env_file", "network", "user"}
    THEN {Some(x) : x \in Strs}
    ELSE IF f = "envs"
    THEN {Some(m) : m \in Maps(Keys, Strs)}
    ELSE {Some(l) : l \in SeqsUpTo(Strs, MaxList)}

\* one present value per optional field, none of which fails
Typical ==
    [command |-> Some(<<Lit, Var>>), entrypoint |-> Some(Var),
     envs |-> Some((KeyK :> Lit) @@ (KeyV :> Var)), env_file |-> Some(Lit),
     network |-> Some(Var), ports |-> Some(<<Lit, Var>>),
     volumes |-> Some(<<Var, Lit>>), user |-> Some(Lit),
     extra_flags |-> Some(<<Var>>)]

Inert ==
    {[help |-> None, interactive |-> None, tty |-> None],
     [help |-> Some(<<"h">>), interactive |-> Some(TRUE), tty |-> Some(TRUE)],
     [help |-> None, interactive |-> Some(FALSE), tty |-> Some(TRUE)]}

\* every combination of present and absent optional fields
PresenceSpecs ==
    [image : {Lit, Var, Sub, Bad},
     command : {None, Typical.command}, entrypoint : {None, Typical.entrypoint},
     envs : {None, Typical.envs}, env_file : {None, Typical.env_file},
     network : {None, Typical.network}, ports : {None, Typical.ports},
     volumes : {None, Typical.volumes}, user : {None, Typical.user},
     extra_flags : {None, Typical.extra_flags}]

\* every value of the two optional fields fg, the other fields absent
PairSpecs(fg) ==
    LET D(h) == IF h \in fg THEN Dom(h) \cup {None} ELSE {None}
    IN  [image : {Lit, Bad},
         command : D("command"), entrypoint : D("entrypoint"),
         envs : D("envs"), env_file : D("env_file"),
         network : D("network"), ports : D("ports"),
         volumes : D("volumes"), user : D("user"),
         extra_flags : D("extra_flags")]

Environment == (<<"V">> :> <<"v">>)

HostShell == [spawned |-> TRUE, utf8 |-> TRUE, stdout |-> <<"o", "\n">>]

NoLocals ==
    [command_flags |-> <<>>, entrypoint_flag |-> <<>>, envs_flags |-> <<>>,
     env_file_flags |-> <<>>, network_flags |-> <<>>, ports_flags |-> <<>>,
     volumes_flags |-> <<>>, user_flags |-> <<>>, extra_flags |-> <<>>,
     image |-> <<>>, envs_order |-> <<>>]

Entry ==
    /\ pc = EvalOrder[1]
    /\ local = NoLocals
    /\ args = <<>>
    /\ launches = 0
    /\ output = None
    /\ stdout = <<>>
    /\ stderr = <<>>
    /\ broken = {}
    /\ result = Running
    /\ interpolated = <<>>

Init ==
    /\ \/ \E core \in PresenceSpecs, inert \in Inert : self = core @@ inert
       \/ \E fg \in {p \in SUBSET OptFields : Cardinality(p) = 2} :
            \E core \in PairSpecs(fg) :
            self = core @@ [help |-> None, interactive |-> None, tty |-> None]
    /\ env = Environment
    /\ sh = HostShell
    /\ Entry

Spec == Init /\ [][Next]_vars

\* the strings the interpolation is exercised on: up to MaxSegs of these pieces
Segments ==
    {<<"a">>, <<" ">>, <<"$">>, <<"$", "V">>, <<"$", "{", "V", "}">>, <<"$", "b">>,
     Sub, <<"$", "(", "c", ")">>, Bad, <<Backtick, "c">>, <<"$", "(", "c">>}

RECURSIVE Flat(_)
Flat(ss) == IF ss = <<>> THEN <<>> ELSE Head(ss) \o Flat(Tail(ss))

Raws == {Flat(ss) : ss \in SeqsUpTo(Segments, MaxSegs)}

Stdouts ==
    {<<>>, <<"o">>, <<"o", "\n">>, <<"o", "\r", "\n">>, <<"o", "\n", "\n">>,
     <<"o", " ", "\n">>, <<"o", "\t">>, <<"\n", "o">>, <<" ", "o", " ">>}

ShOutcomes ==
    {[spawned |-> FALSE, utf8 |-> TRUE, stdout |-> <<>>],
     [spawned |-> TRUE, utf8 |-> FALSE, stdout |-> <<>>]}
    \cup {[spawned |-> TRUE, utf8 |-> TRUE, stdout |-> b] : b \in Stdouts}

OnlyImage(raw) ==
    [image |-> raw, help |-> None, interactive |-> None, tty |-> None,
     command |-> None, entrypoint |-> None, envs |-> None, env_file |-> None,
     network |-> None, ports |-> None, volumes |-> None, user |-> None,
     extra_flags |-> None]

InitInterp ==
    /\ \E raw \in Raws : self = OnlyImage(raw)
    /\ env = Environment
    /\ sh \in ShOutcomes
    /\ Entry

SpecInterp == InitInterp /\ [][Next]_vars

----------------------------------------------------------------------------
(* What the properties below read off a state.                             *)

Exp(raw) == shell_interpolate(raw).val

\* flag, Exp(xs[1]), flag, Exp(xs[2]), ...
Interleave(flag, xs) ==
    [i \in 1..2 * Len(xs) |-> IF i % 2 = 1 THEN Tok(flag) ELSE Exp(xs[i \div 2])]

Plain(xs) == [i \in 1..Len(xs) |-> Exp(xs[i])]

OptList(opt) == IF opt = None THEN <<>> ELSE opt[1]

Range(f) == {f[i] : i \in DOMAIN f}

\* the raw strings run interpolates for a field
FieldStrings(f) ==
    IF f = "image" THEN {self.image}
    ELSE IF self[f] = None THEN {}
    ELSE IF f = "envs" THEN {k \o <<"=">> \o self.envs[1][k] : k \in DOMAIN self.envs[1]}
    ELSE IF f = "network" THEN {<<"--network=">> \o self.network[1]}
    ELSE IF f \in {"entrypoint", "env_file", "user"} THEN {self[f][1]}
    ELSE Range(self[f][1])

Fails(f) == \E raw \in FieldStrings(f) : ~shell_interpolate(raw).ok

AllFields == OptFields \cup {"image"}

GroupEntrypoint == Interleave("--entrypoint", self.entrypoint)
GroupEnvs ==
    Interleave("-e", [i \in 1..Len(local.envs_order) |->
        local.envs_order[i] \o <<"=">> \o self.envs[1][local.envs_order[i]]])
GroupEnvFile == Interleave("--env-file", self.env_file)
GroupNetwork ==
    IF self.network = None THEN <<>> ELSE <<Exp(<<"--network=">> \o self.network[1])>>
GroupPorts == Interleave("-p", OptList(self.ports))
GroupVolumes == Interleave("-v", OptList(self.volumes))
GroupUser == Interleave("-u", self.user)
GroupExtraFlags == Plain(OptList(self.extra_flags))
GroupCommand == Plain(OptList(self.command))

----------------------------------------------------------------------------
\* C1: whenever the launcher is invoked, the tokens it receives are "run",
\* "--rm", then the entrypoint, envs, env-file, network, ports, volumes, user
\* and extra_flags groups in this order, then the expanded image, then the
\* expanded command entries, whichever fields are present.
C1_FlagOrder ==
    launches > 0 =>
        args = <<Tok("run"), Tok("--rm")>> \o GroupEntrypoint \o GroupEnvs
                 \o GroupEnvFile \o GroupNetwork \o GroupPorts \o GroupVolumes
                 \o GroupUser \o GroupExtraFlags \o <<Exp(self.image)>>
                 \o GroupCommand

C1_AllGroupsLaunched ==
    /\ launches > 0
    /\ \A f \in OptFields : FieldStrings(f) # {}
    /\ Len(args) = 25

\* C2: when the interpolation of some field fails, run ends by returning an
\* error value and never invokes the launcher; the launcher is only invoked
\* after every field interpolated successfully.
C2_FailureIsReturned ==
    /\ launches > 0 => \A f \in AllFields : ~Fails(f)
    /\ (\E f \in AllFields : Fails(f)) =>
         /\ launches = 0
         /\ pc # "panicked"
         /\ pc = "returned" => result.kind = "Err"

NoMarker(raw) == \A i \in DOMAIN raw : raw[i] \notin {"$", Backtick}

OnlyImageSet ==
    /\ \A f \in OptFields : self[f] = None
    /\ self.help = None /\ self.interactive = None /\ self.tty = None

\* C3: with only image set, and no substitution marker in it, the launcher
\* receives exactly "run", "--rm" and the image as one token.
C3_OnlyImage ==
    launches > 0 /\ OnlyImageSet /\ NoMarker(self.image) =>
        args = <<Tok("run"), Tok("--rm"), self.image>>

C3_OnlyImageLaunched ==
    launches > 0 /\ OnlyImageSet /\ self.image = <<"a", " ">>

Spawned == output # None /\ output[1].spawned

\* C4 as stated: a child that was spawned and exited with a non-zero status
\* makes run copy both captured streams and return Ok.
C4_NonZeroExitReturnsOk ==
    Spawned /\ output[1].status # 0 /\ pc = "returned" =>
        /\ result.kind = "Ok"
        /\ stdout = output[1].stdout
        /\ stderr = output[1].stderr

\* C4, amended: a child that was spawned and exited with a non-zero status
\* makes run copy both captured streams and return Ok unless a write to the
\* caller's stdout or stderr fails; run then returns that error and writes
\* nothing further.  The exit status never decides the result.
C4_ExitStatusNeverAnError ==
    Spawned /\ output[1].status # 0 /\ pc = "returned" =>
        IF broken = {}
        THEN /\ result.kind = "Ok"
             /\ stdout = output[1].stdout
             /\ stderr = output[1].stderr
        ELSE /\ result = Returned("Err", "io::Error")
             /\ "stdout" \in broken => stdout # output[1].stdout /\ stderr = <<>>
             /\ "stderr" \in broken =>
                  stdout = output[1].stdout /\ stderr # output[1].stderr

C4_NonZeroExitCopied ==
    /\ Spawned /\ output[1].status # 0 /\ pc = "returned"
    /\ result.kind = "Ok"
    /\ stdout = <<"o", "k">> /\ stderr = <<"e", "r">>

\* C5: a failed spawn makes run return the error of the spawn with nothing
\* written to the caller's streams, and the launcher is invoked at most once.
C5_SpawnFailureReturned ==
    /\ launches <= 1
    /\ output # None /\ ~output[1].spawned =>
         /\ pc = "returned"
         /\ result = Returned("Err", "io::Error")
         /\ stdout = <<>> /\ stderr = <<>>

C5_SpawnFailed ==
    output # None /\ ~output[1].spawned /\ launches = 1 /\ pc = "returned"

\* C6: each pair of envs reaches the launcher as "-e" followed by one token,
\* the expansion of key, "=" and value joined, so a marker in the key is
\* expanded too; every pair appears once.
C6_EnvJoinedThenExpanded ==
    launches > 0 /\ self.envs # None =>
        LET m == self.envs[1]
            order == local.envs_order
            at == 2 + Len(GroupEntrypoint)
        IN  /\ Len(order) = Cardinality(DOMAIN m)
            /\ Range(order) = DOMAIN m
            /\ \A i \in 1..Len(order) :
                /\ args[at + 2 * i - 1] = Tok("-e")
                /\ args[at + 2 * i] = Exp(order[i] \o <<"=">> \o m[order[i]])

C6_MarkerInKeyExpanded ==
    /\ launches > 0 /\ self.envs # None
    /\ KeyV \in DOMAIN self.envs[1] /\ self.envs[1][KeyV] = Lit
    /\ <<"v", "=", "a">> \in Range(args)

LineTerminators == {"\n", "\r"}

RECURSIVE StripLineTerminators(_)
StripLineTerminators(s) ==
    IF s # <<>> /\ s[Len(s)] \in LineTerminators
    THEN StripLineTerminators(SubSeq(s, 1, Len(s) - 1))
    ELSE s

\* C7: the text a command substitution splices in is the captured standard
\* output with its trailing line terminators removed and nothing else.
C7_OnlyLineTerminatorsTrimmed ==
    launches > 0 /\ self.image \in {Sub, <<"$", "(", "c", ")">>} =>
        local.image = StripLineTerminators(sh.stdout)

\* C8: the ports entries reach the launcher as one contiguous block, "-p"
\* before each expanded entry, entries in list order, none dropped or
\* repeated; likewise the volumes entries with "-v".
C8_PortsVolumesBlocks ==
    launches > 0 =>
        LET ports == OptList(self.ports)
            volumes == OptList(self.volumes)
            atP == 2 + Len(GroupEntrypoint) + Len(GroupEnvs) + Len(GroupEnvFile)
                     + Len(GroupNetwork)
            atV == atP + 2 * Len(ports)
        IN  /\ local.ports_flags = SubSeq(args, atP + 1, atV)
            /\ local.volumes_flags = SubSeq(args, atV + 1, atV + 2 * Len(volumes))
            /\ \A i \in 1..Len(ports) :
                 args[atP + 2 * i - 1] = Tok("-p") /\ args[atP + 2 * i] = Exp(ports[i])
            /\ \A i \in 1..Len(volumes) :
                 args[atV + 2 * i - 1] = Tok("-v") /\ args[atV + 2 * i] = Exp(volumes[i])

C8_TwoPortsTwoVolumes ==
    /\ launches > 0
    /\ self.ports = Some(<<Lit, Var>>) /\ self.volumes = Some(<<Var, Lit>>)
    /\ self.entrypoint # None

\* the bindings the statements of run make for s
RenderLocals(s, order) ==
    [command_flags |-> CommandFlags(s).val,
     entrypoint_flag |-> EntrypointFlag(s).val,
     envs_flags |-> EnvsFlags(s, order).val,
     env_file_flags |-> EnvFileFlags(s).val,
     network_flags |-> NetworkFlags(s).val,
     ports_flags |-> PortsFlags(s).val,
     volumes_flags |-> VolumesFlags(s).val,
     user_flags |-> UserFlags(s).val,
     extra_flags |-> ExtraFlags(s).val,
     image |-> Image(s).val,
     envs_order |-> order]

InertValues ==
    [help : {None, Some(<<"h">>)}, interactive : {None, Some(TRUE)},
     tty : {None, Some(TRUE)}]

\* the state Launch leaves: args is assigned there and nowhere else
JustLaunched == launches > 0 /\ (pc = "write_stdout" \/ ~Spawned)

\* C9: a RunSpec that differs from the one run was called on only in help,
\* interactive or tty renders the token sequence the launcher received, and
\* that sequence holds no -i or -t.
C9_InertFields ==
    JustLaunched =>
        /\ args = Args(local)
        /\ \A i \in InertValues :
             RenderLocals([self EXCEPT !.help = i.help, !.interactive = i.interactive,
                                       !.tty = i.tty], local.envs_order) = local
        /\ \A k \in DOMAIN args :
             args[k] \notin {Tok("-i"), Tok("-t"), Tok("-it"), Tok("-ti"),
                             Tok("--interactive"), Tok("--tty")}

C9_InteractiveTtyLaunched ==
    /\ JustLaunched
    /\ self.interactive = Some(TRUE) /\ self.tty = Some(TRUE) /\ self.help # None

SourceOrder ==
    <<"command", "entrypoint", "envs", "env_file", "network", "ports",
      "volumes", "user", "extra_flags", "image">>

ExpectMessage(f) ==
    CASE f = "command" -> "Invalid env for cmds"
      [] f = "entrypoint" -> "Invalid env for entrypoint"
      [] f = "envs" -> "Invalid env for envs"
      [] f = "env_file" -> "Invalid env for env-file"
      [] f = "network" -> "Invalid env for env-file"
      [] f = "ports" -> "Invalid env for ports"
      [] f = "volumes" -> "Invalid env for volumes"
      [] f = "user" -> "Invalid env for user"
      [] f = "extra_flags" -> "Invalid env for extra flags"

IsPrefix(p, q) == Len(p) <= Len(q) /\ p = SubSeq(q, 1, Len(p))

\* the fields one call interpolates: those with a string, in source order, up
\* to and including the first one that fails
Interpolations ==
    LET Called(f) == FieldStrings(f) # {}
        called == SelectSeq(SourceOrder, Called)
        failing == {k \in 1..Len(called) : Fails(called[k])}
    IN  IF failing = {} THEN called
        ELSE SubSeq(called, 1, CHOOSE k \in failing : \A j \in failing : k <= j)

Ended == pc \in {"launch", "write_stdout", "write_stderr", "returned", "panicked"}

\* C10: the fields are interpolated in the order command, entrypoint, envs,
\* env_file, network, ports, volumes, user, extra_flags, image; the failure
\* that ends the call is the one of the earliest failing field in this order,
\* and the image is not interpolated when another field fails.
C10_EvaluationOrder ==
    /\ IsPrefix(interpolated, Interpolations)
    /\ Ended => interpolated = Interpolations
    /\ pc = "panicked" =>
         LET f == interpolated[Len(interpolated)]
         IN  f # "image" /\ Fails(f) /\ result = Returned("Panic", ExpectMessage(f))
    /\ result.kind = "Err" /\ launches = 0 =>
         /\ interpolated[Len(interpolated)] = "image"
         /\ Fails("image")
    /\ (\E f \in OptFields : Fails(f)) => "image" \notin Range(interpolated)

C10_CommandFailsFirst ==
    /\ pc = "panicked"
    /\ Fails("command") /\ Fails("entrypoint") /\ Fails("image")
    /\ interpolated = <<"command">>
    /\ result = Returned("Panic", "Invalid env for cmds")

====
